---- MODULE Spec2Model ----
(***************************************************************************)
(* Arithmetic of binary extension fields GF(2^m) on multi-limb             *)
(* polynomials: carryless word multiplication, schoolbook widening         *)
(* multiplication, division with remainder by a fixed modulus, modular     *)
(* inversion, and the field types GF2p128, GF2p192 and GF2p256.            *)
(*                                                                         *)
(* A polynomial of L limbs is a sequence of L words, big-endian: limb 1    *)
(* of the sequence is limbs[0] of the source and holds the highest-degree  *)
(* terms.  A wide polynomial is a sequence of 2L words, high half first.   *)
(***************************************************************************)
EXTENDS Integers, Sequences, FiniteSets

\* Word = u16
WordBits == 16

Pow2(n) == 2 ^ n

WordMod == Pow2(WordBits)

\* bit i of the word w
Bit(w, i) == (w \div Pow2(i)) % 2

(***************************************************************************)
(* The bitwise operators of a word.                                        *)
(***************************************************************************)
RECURSIVE BitXor(_, _)
BitXor(a, b) ==
    IF a = 0 THEN b
    ELSE IF b = 0 THEN a
    ELSE ((a + b) % 2) + 2 * BitXor(a \div 2, b \div 2)

\* the XOR of two 4-bit digits, tabulated once
XorNibble == [p \in 0 .. 15 |-> [q \in 0 .. 15 |-> BitXor(p, q)]]

\* a ^ b on words, four hexadecimal digits at a time
Xor(a, b) ==
      XorNibble[a % 16][b % 16]
    + 16 * XorNibble[(a \div 16) % 16][(b \div 16) % 16]
    + 256 * XorNibble[(a \div 256) % 16][(b \div 256) % 16]
    + 4096 * XorNibble[(a \div 4096) % 16][(b \div 4096) % 16]

\* !w on words
Not(w) == (WordMod - 1) - w

\* what an operation yields when it panics (an array index out of bounds, a
\* usize subtraction below zero) instead of returning
Panic == << >>

\* Word::overflowing_shr: the shift amount is taken modulo the width, and the
\* flag tells whether it was at least the width
overflowing_shr(w, rhs) == << w \div Pow2(rhs % WordBits), rhs >= WordBits >>

\* Word::overflowing_shl
overflowing_shl(w, rhs) == << (w * Pow2(rhs % WordBits)) % WordMod, rhs >= WordBits >>

(***************************************************************************)
(* widening_clmul: the carryless product of two words, as (high, low).     *)
(***************************************************************************)
\* the body of the loop for one i: the widening left shift of a by i
\* positions, XORed into prod when bit i of b is set
clmul_step_keeps_overflow(prod, a, b, i) ==
    IF Bit(b, i) # 0
    THEN LET shr == overflowing_shr(a, WordBits - i)
             shl == overflowing_shl(a, i)
         IN  << Xor(prod[1], shr[1]), Xor(prod[2], shl[1]) >>
    ELSE prod

clmul_step(prod, a, b, i) ==
    IF Bit(b, i) # 0
    THEN LET shr == overflowing_shr(a, WordBits - i)
             high_bits == IF shr[2] THEN 0 ELSE shr[1]
             shl == overflowing_shl(a, i)
             low_bits == IF shl[2] THEN 0 ELSE shl[1]
         IN  << Xor(prod[1], high_bits), Xor(prod[2], low_bits) >>
    ELSE prod

\* for i in lo..hi: the first half of the range, then the second
RECURSIVE clmul_loop(_, _, _, _, _)
clmul_loop(prod, a, b, lo, hi) ==
    CASE prod = Panic -> Panic
      [] hi <= lo -> prod
      [] hi = lo + 1 -> clmul_step(prod, a, b, lo)
      [] OTHER -> clmul_loop(clmul_loop(prod, a, b, lo, (lo + hi) \div 2),
                             a, b, (lo + hi) \div 2, hi)

widening_clmul(a, b) == clmul_loop(<< 0, 0 >>, a, b, 0, WordBits)

(***************************************************************************)
(* ExtField2<L>: a polynomial of L limbs.                                  *)
(***************************************************************************)
\* the polynomial holding the array `limbs`
from_limbs(limbs) == SubSeq(limbs, 1, Len(limbs))

zero(L) == from_limbs([i \in 1 .. L |-> 0])

one(L) == from_limbs([i \in 1 .. L |-> IF i = L THEN 1 ELSE 0])

not(p) == from_limbs([i \in 1 .. Len(p) |-> Not(p[i])])

\* a faulty gf_add, which leaves the last limb of p as it is
gf_add_skips_last_limb(p, q) ==
    from_limbs([i \in 1 .. Len(p) |-> IF i = Len(p) THEN p[i] ELSE Xor(p[i], q[i])])

gf_add(p, q) == from_limbs([i \in 1 .. Len(p) |-> Xor(p[i], q[i])])

gf_sub(p, q) == gf_add(p, q)

\* limbs[idx] ^= w in the half `limbs` (idx counted from 0, as in the source)
xor_limb(limbs, idx, w) ==
    IF idx < 0 \/ idx >= Len(limbs) THEN Panic
    ELSE [limbs EXCEPT ![idx + 1] = Xor(@, w)]

\* XOR the word w into word-position pos (0 = lowest) of hl = (high, low):
\* positions below L are in low, the others in high at offset L
xor_at(hl, L, pos, w) ==
    IF pos < L
    THEN LET low == xor_limb(hl[2], L - pos - 1, w)
         IN  IF low = Panic THEN Panic ELSE << hl[1], low >>
    ELSE LET high == xor_limb(hl[1], L - (pos - L) - 1, w)
         IN  IF high = Panic THEN Panic ELSE << high, hl[2] >>

gf_mul_step_same_position(hl, p, q, L, i, j) ==
    LET hilo == widening_clmul(p[L - i], q[L - j])
        acc == xor_at(hl, L, i + j, hilo[2])
    IN  IF acc = Panic THEN Panic ELSE xor_at(acc, L, i + j, hilo[1])

\* the body of the inner loop for one (i, j)
gf_mul_step(hl, p, q, L, i, j) ==
    LET hilo == widening_clmul(p[L - i], q[L - j])
        acc == xor_at(hl, L, i + j, hilo[2])
    IN  IF acc = Panic THEN Panic ELSE xor_at(acc, L, i + j + 1, hilo[1])

\* for j in lo..hi: the first half of the range, then the second
RECURSIVE gf_mul_inner(_, _, _, _, _, _, _)
gf_mul_inner(hl, p, q, L, i, lo, hi) ==
    CASE hl = Panic -> Panic
      [] hi <= lo -> hl
      [] hi = lo + 1 -> gf_mul_step(hl, p, q, L, i, lo)
      [] OTHER -> gf_mul_inner(gf_mul_inner(hl, p, q, L, i, lo, (lo + hi) \div 2),
                               p, q, L, i, (lo + hi) \div 2, hi)

\* for i in lo..hi
RECURSIVE gf_mul_outer(_, _, _, _, _, _)
gf_mul_outer(hl, p, q, L, lo, hi) ==
    CASE hl = Panic -> Panic
      [] hi <= lo -> hl
      [] hi = lo + 1 -> gf_mul_inner(hl, p, q, L, lo, 0, L)
      [] OTHER -> gf_mul_outer(gf_mul_outer(hl, p, q, L, lo, (lo + hi) \div 2),
                               p, q, L, (lo + hi) \div 2, hi)

\* (high, low)
widening_gf_mul(p, q) ==
    gf_mul_outer(<< zero(Len(p)), zero(Len(p)) >>, p, q, Len(p), 0, Len(p))

\* GF_2_16 = ExtField2<1>, GF_2_128 = ExtField2<8>
ExtFields == {"GF_2_16", "GF_2_128"}

\* the parameter L of the type
ExtLimbs(t) ==
    CASE t = "GF_2_16" -> 1
      [] t = "GF_2_128" -> 8

(***************************************************************************)
(* F2x<L> and WideF2x<L>: the polynomial type of the field types.  F2x<L>  *)
(* is L limbs, WideF2x<L> is 2L limbs, the high half first.                *)
(***************************************************************************)
from_f2x(high, low) == high \o low

\* the low half of a wide polynomial
truncate(w) == SubSeq(w, (Len(w) \div 2) + 1, Len(w))

\* the high half of a wide polynomial
high_half(w) == SubSeq(w, 1, Len(w) \div 2)

is_zero(p) == \A i \in 1 .. Len(p) : p[i] = 0

F2x_add(p, q) == gf_add(p, q)

\* section 4.2 on F2x: the schoolbook product, as one wide polynomial
widening_mul(p, q) ==
    LET hl == widening_gf_mul(p, q)
    IN  IF hl = Panic THEN Panic ELSE from_f2x(hl[1], hl[2])

\* the position of the highest set bit of a non-zero word
word_degree(w) == CHOOSE d \in 0 .. (WordBits - 1) : Pow2(d) <= w /\ w < 2 * Pow2(d)

\* the index of the first non-zero limb, Len(p) + 1 when none
first_nonzero(p) ==
    IF is_zero(p) THEN Len(p) + 1
    ELSE CHOOSE k \in 1 .. Len(p) : p[k] # 0 /\ \A j \in 1 .. (k - 1) : p[j] = 0

\* the degree of a polynomial, -1 for the zero polynomial
degree(p) ==
    LET k == first_nonzero(p)
    IN  IF k > Len(p) THEN -1
        ELSE (Len(p) - k) * WordBits + word_degree(p[k])

\* limb i of p shifted left by s bits within its width
shl_limb(p, i, s) ==
    LET q == s \div WordBits
        r == s % WordBits
        lo == IF i + q <= Len(p) THEN (p[i + q] * Pow2(r)) % WordMod ELSE 0
        hi == IF r > 0 /\ i + q + 1 <= Len(p)
              THEN p[i + q + 1] \div Pow2(WordBits - r) ELSE 0
    IN  lo + hi

shl(p, s) == from_limbs([i \in 1 .. Len(p) |-> shl_limb(p, i, s)])

\* p with bit s set
set_bit(p, s) ==
    [p EXCEPT ![Len(p) - (s \div WordBits)] =
        IF Bit(@, s % WordBits) = 1 THEN @ ELSE @ + Pow2(s % WordBits)]

\* the division loop runs while the remainder's degree is at least the divisor's
div_more(st, divisor) == degree(st.rem) >= degree(divisor)

\* a faulty iteration, which forgets the quotient's bit
div_step_keeps_quotient(st, divisor) ==
    [quo |-> st.quo,
     rem |-> gf_add(st.rem, shl(divisor, degree(st.rem) - degree(divisor)))]

\* one iteration of long division: set bit (degree - m) of the quotient and XOR
\* the divisor, shifted left by that amount, into the remainder
div_step(st, divisor) ==
    LET amount == degree(st.rem) - degree(divisor)
    IN  [quo |-> set_bit(st.quo, amount),
         rem |-> gf_add(st.rem, shl(divisor, amount))]

\* up to n iterations of the loop: the first half of them, then the others
RECURSIVE div_steps(_, _, _)
div_steps(st, divisor, n) ==
    CASE st = Panic -> Panic
      [] n <= 0 -> st
      [] ~div_more(st, divisor) -> st
      [] n = 1 -> div_step(st, divisor)
      [] OTHER -> div_steps(div_steps(st, divisor, n \div 2), divisor, n - (n \div 2))

\* the whole loop, as many iterations at a time as the remainder has terms
\* the divisor can cancel
RECURSIVE div_loop(_, _)
div_loop(st, divisor) ==
    CASE st = Panic -> Panic
      [] ~div_more(st, divisor) -> st
      [] OTHER ->
           div_loop(div_steps(st, divisor, degree(st.rem) - degree(divisor) + 1),
                    divisor)

\* (quotient, remainder); dividing by the zero polynomial has no result
div_rem(dividend, divisor) ==
    IF is_zero(divisor) THEN Panic
    ELSE LET st == div_loop([quo |-> zero(Len(dividend)), rem |-> dividend], divisor)
         IN  << st.quo, st.rem >>

(***************************************************************************)
(* Modular inversion: the extended Euclidean algorithm on (modulus, self), *)
(* tracking the Bezout coefficient of self.                                *)
(***************************************************************************)
None == << "None" >>

Some(v) == << "Some", v >>

\* acc XOR (t shifted left by the exponent of every term of q),
\* over the terms x^lo .. x^(hi - 1) of q
RECURSIVE mul_xor_bits(_, _, _, _, _)
mul_xor_bits(acc, q, t, lo, hi) ==
    CASE acc = Panic -> Panic
      [] hi <= lo -> acc
      [] hi = lo + 1 ->
           IF Bit(q[Len(q) - (lo \div WordBits)], lo % WordBits) = 1
           THEN gf_add(acc, shl(t, lo)) ELSE acc
      [] OTHER -> mul_xor_bits(mul_xor_bits(acc, q, t, lo, (lo + hi) \div 2),
                               q, t, (lo + hi) \div 2, hi)

\* acc XOR q * t
mul_xor(acc, q, t) == mul_xor_bits(acc, q, t, 0, degree(q) + 1)

\* one step: (r0, r1) becomes (r1, r0 mod r1), (t0, t1) becomes (t1, t0 + q t1)
eea_step(st) ==
    LET qr == div_rem(st.r0, st.r1)
    IN  [r0 |-> st.r1, r1 |-> qr[2],
         t0 |-> st.t1, t1 |-> mul_xor(st.t0, qr[1], st.t1)]

\* up to n steps, until the remainder is zero
RECURSIVE eea_steps(_, _)
eea_steps(st, n) ==
    CASE st = Panic -> Panic
      [] n <= 0 -> st
      [] is_zero(st.r1) -> st
      [] n = 1 -> eea_step(st)
      [] OTHER -> eea_steps(eea_steps(st, n \div 2), n - (n \div 2))

\* the whole loop, as many steps at a time as the remainder has terms
RECURSIVE eea_loop(_)
eea_loop(st) ==
    CASE st = Panic -> Panic
      [] is_zero(st.r1) -> st
      [] OTHER -> eea_loop(eea_steps(st, degree(st.r1) + 1))

\* F2x::modinv: None for the zero polynomial (and whenever the gcd is not 1)
modinv(p, modulus) ==
    IF is_zero(p) THEN None
    ELSE LET W == Len(modulus)
             st == eea_loop([r0 |-> modulus, r1 |-> from_f2x(zero(Len(p)), p),
                             t0 |-> zero(W), t1 |-> one(W)])
         IN  IF st.r0 = one(W) THEN Some(truncate(div_rem(st.t0, modulus)[2]))
             ELSE None

(***************************************************************************)
(* The field types stamped out by galois_field!.                           *)
(***************************************************************************)
Fields == {"GF2p128", "GF2p192", "GF2p256"}

LIMBS(f) ==
    CASE f = "GF2p128" -> 8
      [] f = "GF2p192" -> 12
      [] f = "GF2p256" -> 16

\* faulty moduli: x^128 + x^77 + x^35 + x^11 and its like, which x divides
MODULUS_without_one(f) ==
    CASE f = "GF2p128" ->
           from_f2x(one(8), << 0, 0, 0, 8192, 0, 8, 0, 2048 >>)
      [] f = "GF2p192" ->
           from_f2x(one(12), << 0, 0, 0, 16384, 0, 128, 0, 0, 0, 0, 2, 0 >>)
      [] f = "GF2p256" ->
           from_f2x(one(16), << 2, 0, 0, 0, 4, 0, 0, 0, 512, 0, 0, 0, 0, 0, 0, 0 >>)

\* faulty moduli: x^77 + x^35 + x^11 + 1 and its like, of degree below m
MODULUS_without_leading_term(f) ==
    CASE f = "GF2p128" ->
           from_f2x(zero(8), << 0, 0, 0, 8192, 0, 8, 0, 2049 >>)
      [] f = "GF2p192" ->
           from_f2x(zero(12), << 0, 0, 0, 16384, 0, 128, 0, 0, 0, 0, 2, 1 >>)
      [] f = "GF2p256" ->
           from_f2x(zero(16), << 2, 0, 0, 0, 4, 0, 0, 0, 512, 0, 0, 0, 0, 0, 0, 1 >>)

\* x^128 + x^77 + x^35 + x^11 + 1, x^192 + x^142 + x^103 + x^17 + 1,
\* x^256 + x^241 + x^178 + x^121 + 1
MODULUS(f) ==
    CASE f = "GF2p128" ->
           from_f2x(one(8), << 0, 0, 0, 8192, 0, 8, 0, 2049 >>)
      [] f = "GF2p192" ->
           from_f2x(one(12), << 0, 0, 0, 16384, 0, 128, 0, 0, 0, 0, 2, 1 >>)
      [] f = "GF2p256" ->
           from_f2x(one(16), << 2, 0, 0, 0, 4, 0, 0, 0, 512, 0, 0, 0, 0, 0, 0, 1 >>)

ONE(f) == one(LIMBS(f))

ZERO(f) == zero(LIMBS(f))

add(f, a, b) == F2x_add(a, b)

sub(f, a, b) == add(f, a, b)

\* a faulty mul, which keeps the quotient of the division
mul_keeps_quotient(f, a, b) ==
    truncate(div_rem(widening_mul(a, b), MODULUS(f))[1])

\* a faulty mul, which multiplies self by itself
mul_squares_self(f, a, b) ==
    truncate(div_rem(widening_mul(a, a), MODULUS(f))[2])

mul(f, a, b) ==
    LET prod == widening_mul(a, b)
    IN  IF prod = Panic THEN Panic
        ELSE LET qr == div_rem(prod, MODULUS(f))
             IN  IF qr = Panic THEN Panic ELSE truncate(qr[2])

\* a faulty inv, which maps the absent inverse to the zero element
inv_of_zero_is_zero(f, a) ==
    LET inverse == modinv(a, MODULUS(f))
    IN  IF inverse = None THEN Some(zero(Len(a))) ELSE Some(inverse[2])

inv(f, a) ==
    LET inverse == modinv(a, MODULUS(f))
    IN  IF inverse = None THEN None ELSE Some(inverse[2])

(***************************************************************************)
(* The known-answer vectors of the source's tests.                         *)
(***************************************************************************)
\* test_widening_clmul: (a, b, high, low)
ClmulTests ==
    { << 15, 15, 0, 85 >>, << 65535, 65535, 21845, 21845 >>,
      << 57891, 26415, 9851, 45713 >>, << 0, 0, 0, 0 >>, << 0, 1, 0, 0 >>,
      << 1, 0, 0, 0 >> }

\* test_extfield_widening_mul: (lhs, rhs, high, low)
WideningMulTests ==
    { << zero(8), not(zero(8)), zero(8), zero(8) >>,
      << not(zero(8)), not(zero(8)),
         << 21845, 21845, 21845, 21845, 21845, 21845, 21845, 21845 >>,
         << 21845, 21845, 21845, 21845, 21845, 21845, 21845, 21845 >> >>,
      << << 15820, 23778, 35485, 16355, 21257, 2035, 51709, 17334 >>,
         << 33648, 32169, 4237, 62903, 12489, 44728, 29082, 60853 >>,
         << 7851, 26343, 16736, 34462, 41895, 910, 939, 9663 >>,
         << 30665, 58162, 8455, 9991, 35581, 36372, 59257, 17870 >> >>,
      << << 4141, 11220, 26284, 48305, 63431, 24553, 48066, 13149 >>,
         << 60304, 50187, 64788, 57369, 57285, 57479, 9199, 41375 >>,
         << 3744, 31837, 64423, 1938, 6963, 12861, 58675, 27639 >>,
         << 6582, 43150, 25317, 47918, 1711, 43796, 27272, 58411 >> >>,
      << << 43357, 432, 53414, 33193, 37541, 41494, 51569, 38426 >>,
         << 2071, 12005, 45833, 5391, 11249, 23138, 8599, 45512 >>,
         << 1347, 12465, 35587, 19086, 17399, 10715, 4262, 48307 >>,
         << 32155, 20781, 38133, 4787, 36196, 59023, 60157, 49488 >> >> }

\* test_gf2_128_mul: (lhs, rhs, rem)
MulTests ==
    { << << 4692, 16792, 36263, 10685, 60657, 25822, 64423, 46738 >>,
         << 32137, 55146, 25678, 14876, 1148, 46602, 7064, 12528 >>,
         << 14520, 47423, 58122, 58718, 64548, 12109, 23062, 48404 >> >>,
      << << 24087, 41347, 4023, 51113, 54227, 53668, 35170, 50165 >>,
         << 28364, 35163, 30412, 34142, 39956, 61295, 22650, 18948 >>,
         << 50220, 48385, 57520, 26941, 24137, 27944, 42655, 28698 >> >>,
      << << 27760, 18869, 38820, 26065, 9072, 36286, 4735, 24315 >>,
         << 13191, 62416, 48467, 44531, 10644, 15226, 45736, 38730 >>,
         << 17410, 62274, 13434, 42544, 2909, 12731, 48856, 30370 >> >>,
      << << 39082, 54108, 757, 24876, 26529, 39772, 61950, 39111 >>,
         << 20243, 37928, 28021, 25030, 11495, 41218, 46406, 49539 >>,
         << 2521, 40230, 22117, 11694, 10786, 39208, 49820, 53587 >> >>,
      << << 7848, 58570, 13289, 31864, 53732, 36927, 28528, 8440 >>,
         << 59938, 27980, 50644, 3202, 62852, 12677, 14068, 4786 >>,
         << 35570, 23825, 46442, 26816, 50141, 55713, 44142, 37643 >> >> }

(***************************************************************************)
(* The inputs of the model.                                                *)
(***************************************************************************)
\* how many sampled words and sampled polynomials the inputs hold
MaxSeed == 2

\* limb i of the s-th sampled polynomial
SampleLimb(s, i) == (s * 40503 + i * 25173 + 13849) % WordMod

\* random(): L words taken as they come; the s-th sample
random(s, L) == from_limbs([i \in 1 .. L |-> SampleLimb(s, i)])

\* the polynomials of L limbs the operations are called with
Pool(L) == {zero(L), one(L), not(zero(L))} \cup {random(s, L) : s \in 1 .. MaxSeed}

\* the words widening_clmul is called with
SampleWords ==
    {0, 65535} \cup {t[1] : t \in ClmulTests} \cup {t[2] : t \in ClmulTests}
        \cup {Pow2(i) : i \in 0 .. (WordBits - 1)}
        \cup {SampleLimb(s, 0) : s \in 1 .. MaxSeed}

\* the types whose operations are called
Types == {"Word"} \cup ExtFields \cup Fields

\* the number of limbs of a polynomial type
LimbsOf(t) == IF t \in Fields THEN LIMBS(t) ELSE ExtLimbs(t)

\* the vectors of the tests of type t
TestsOf(t) ==
    IF t = "GF2p128" THEN MulTests
    ELSE IF t = "GF_2_128" THEN WideningMulTests
    ELSE {}

\* the values of type t an operation is called on
Values(t) ==
    IF t = "Word" THEN SampleWords
    ELSE Pool(LimbsOf(t)) \cup {v[1] : v \in TestsOf(t)}

\* the second operands the value x of type t is combined with
Operands(t, x) ==
    IF t = "Word" THEN SampleWords
    ELSE Pool(LimbsOf(t)) \cup {v[2] : v \in {u \in TestsOf(t) : u[1] = x}}

(***************************************************************************)
(* The state: a value `self` of type `ty`, the operation called on it, the *)
(* operation's other operand, and what it returned.  For div_rem, out is   *)
(* the (quotient, remainder) of the running division and iter counts its   *)
(* iterations.                                                             *)
(***************************************************************************)
VARIABLES ty, self, op, in, out, iter

vars == << ty, self, op, in, out, iter >>

Init ==
    /\ ty \in Types
    /\ self \in Values(ty)
    /\ op = "new"
    /\ in = << >>
    /\ out = << >>
    /\ iter = 0

Clmul ==
    /\ op = "new" /\ ty = "Word"
    /\ \E b \in Operands(ty, self) :
          /\ in' = b
          /\ out' = widening_clmul(self, b)
    /\ op' = "widening_clmul"
    /\ UNCHANGED << ty, self, iter >>

GfAdd ==
    /\ op = "new" /\ ty \in ExtFields
    /\ \E b \in Operands(ty, self) :
          /\ in' = b
          /\ out' = gf_add(self, b)
    /\ op' = "gf_add"
    /\ UNCHANGED << ty, self, iter >>

GfSub ==
    /\ op = "new" /\ ty \in ExtFields
    /\ \E b \in Operands(ty, self) :
          /\ in' = b
          /\ out' = gf_sub(self, b)
    /\ op' = "gf_sub"
    /\ UNCHANGED << ty, self, iter >>

WideningGfMul ==
    /\ op = "new" /\ ty \in ExtFields
    /\ \E b \in Operands(ty, self) :
          /\ in' = b
          /\ out' = widening_gf_mul(self, b)
    /\ op' = "widening_gf_mul"
    /\ UNCHANGED << ty, self, iter >>

Add ==
    /\ op = "new" /\ ty \in Fields
    /\ \E b \in Operands(ty, self) :
          /\ in' = b
          /\ out' = add(ty, self, b)
    /\ op' = "add"
    /\ UNCHANGED << ty, self, iter >>

Sub ==
    /\ op = "new" /\ ty \in Fields
    /\ \E b \in Operands(ty, self) :
          /\ in' = b
          /\ out' = sub(ty, self, b)
    /\ op' = "sub"
    /\ UNCHANGED << ty, self, iter >>

Mul ==
    /\ op = "new" /\ ty \in Fields
    /\ \E b \in Operands(ty, self) :
          /\ in' = b
          /\ out' = mul(ty, self, b)
    /\ op' = "mul"
    /\ UNCHANGED << ty, self, iter >>

Inv ==
    /\ op = "new" /\ ty \in Fields
    /\ in' = << >>
    /\ out' = inv(ty, self)
    /\ op' = "inv"
    /\ UNCHANGED << ty, self, iter >>

Next == Clmul \/ GfAdd \/ GfSub \/ WideningGfMul \/ Add \/ Sub \/ Mul \/ Inv

Spec == Init /\ [][Next]_vars

(***************************************************************************)
(* The division of mul, one iteration of its loop at a time.  in is the    *)
(* dividend, out the running [quo, rem], iter the number of iterations     *)
(* run so far.                                                             *)
(***************************************************************************)
InitDiv == Init /\ ty \in Fields

\* mul's division: the dividend is the product self * b
MulDivRem ==
    /\ op = "new" /\ ty \in Fields
    /\ \E b \in Operands(ty, self) :
          /\ in' = widening_mul(self, b)
          /\ out' = [quo |-> zero(2 * LIMBS(ty)), rem |-> widening_mul(self, b)]
    /\ op' = "div_rem"
    /\ iter' = 0
    /\ UNCHANGED << ty, self >>

\* dividends of degree below 2m made of a and b: a in the high half and b in
\* the low one, and b * MODULUS + a, whose quotient is b and remainder a
Dividends(f, a, b) ==
    LET L == LIMBS(f)
    IN  { from_f2x(a, b),
          mul_xor(from_f2x(zero(L), a), from_f2x(zero(L), b), MODULUS(f)) }

\* div_rem called on any dividend of degree below 2m
DivRem ==
    /\ op = "new" /\ ty \in Fields
    /\ \E b \in Operands(ty, self) :
          \E d \in Dividends(ty, self, b) :
             /\ in' = d
             /\ out' = [quo |-> zero(2 * LIMBS(ty)), rem |-> d]
    /\ op' = "div_rem"
    /\ iter' = 0
    /\ UNCHANGED << ty, self >>

\* the loop's condition holds and one more iteration is counted
DivIterates ==
    /\ op = "div_rem"
    /\ div_more(out, MODULUS(ty))
    /\ iter' = iter + 1

\* one iteration of the loop
DivStep ==
    /\ DivIterates
    /\ out' = div_step(out, MODULUS(ty))
    /\ UNCHANGED << ty, self, op, in >>

\* the loop's exit: (quo, rem) is returned
DivDone ==
    /\ op = "div_rem"
    /\ ~div_more(out, MODULUS(ty))
    /\ op' = "div_rem_done"
    /\ UNCHANGED << ty, self, in, out, iter >>

NextDiv == MulDivRem \/ DivRem \/ DivStep \/ DivDone

\* the loop is sequential code: while its condition holds the next iteration
\* runs, and once it fails the function returns
SpecDiv == InitDiv /\ [][NextDiv]_vars /\ WF_iter(DivIterates) /\ WF_vars(DivDone)

(***************************************************************************)
(* Polynomials over GF(2) as sets of exponents: the reference the          *)
(* operations are compared with.                                           *)
(***************************************************************************)
\* the exponents of the terms of the polynomial held in the limbs p
Exps(p) ==
    {k \in 0 .. (WordBits * Len(p) - 1) :
        Bit(p[Len(p) - (k \div WordBits)], k % WordBits) = 1}

\* the product of two polynomials of degree below n: the coefficient of x^k is
\* the XOR over i + j = k of (coefficient i of A) AND (coefficient j of B)
PolyMul(A, B, n) ==
    {k \in 0 .. (2 * n - 1) : Cardinality({i \in A : (k - i) \in B}) % 2 = 1}

\* the sum of two polynomials
PolyAdd(A, B) == (A \ B) \cup (B \ A)

(***************************************************************************)
(* C1: widening_clmul(a, b) = (high, low) is the carryless product: bit k  *)
(* of high:low is the XOR over i + j = k of (bit i of a) AND (bit j of b), *)
(* for every k; the shift by zero contributes high = 0 and low = a, so     *)
(* widening_clmul(0, x) = (0, 0) and widening_clmul(a, 1) = (0, a); the    *)
(* vectors of test_widening_clmul hold.                                    *)
(***************************************************************************)
C1_WideningClmul ==
    op = "widening_clmul" =>
        LET a == self
            b == in
        IN  /\ \A k \in 0 .. (2 * WordBits - 1) :
                  (IF k < WordBits THEN Bit(out[2], k) ELSE Bit(out[1], k - WordBits))
                      = Cardinality({i \in 0 .. (WordBits - 1) :
                                        /\ k - i \in 0 .. (WordBits - 1)
                                        /\ Bit(a, i) = 1
                                        /\ Bit(b, k - i) = 1}) % 2
            /\ (a = 0 => out = << 0, 0 >>)
            /\ (b = 1 => out = << 0, a >>)
            /\ \A t \in ClmulTests :
                  (a = t[1] /\ b = t[2]) => out = << t[3], t[4] >>

\* the product of two words with bit 0 of b set and a non-zero high word
C1_Witness ==
    /\ op = "widening_clmul"
    /\ self = 57891 /\ in = 26415
    /\ out = << 9851, 45713 >>

(***************************************************************************)
(* C2: widening_gf_mul(a, b) = (high, low) and high:low is exactly the     *)
(* GF(2)[x] product of a and b; both halves have L limbs and no index      *)
(* falls outside either half; the vectors of test_extfield_widening_mul    *)
(* hold.                                                                   *)
(***************************************************************************)
C2_WideningGfMul ==
    op = "widening_gf_mul" =>
        LET a == self
            b == in
            L == Len(a)
        IN  /\ out # Panic
            /\ Len(out[1]) = L /\ Len(out[2]) = L
            /\ Exps(out[1] \o out[2]) = PolyMul(Exps(a), Exps(b), WordBits * L)
            /\ \A t \in WideningMulTests :
                  (a = t[1] /\ b = t[2]) => out = << t[3], t[4] >>

\* a product of two polynomials of 8 limbs whose high half is not zero
C2_Witness ==
    /\ op = "widening_gf_mul"
    /\ self = << 15820, 23778, 35485, 16355, 21257, 2035, 51709, 17334 >>
    /\ in = << 33648, 32169, 4237, 62903, 12489, 44728, 29082, 60853 >>
    /\ out[1] = << 7851, 26343, 16736, 34462, 41895, 910, 939, 9663 >>

(***************************************************************************)
(* C3: mul(a, b) is the remainder of the exact product a * b divided by    *)
(* the field's MODULUS: for the quotient q of that division,               *)
(* q * MODULUS + mul(a, b) = a * b over GF(2)[x]; the remainder has degree *)
(* below m, so its high half is zero and truncating it drops only zero     *)
(* bits; the vectors of test_gf2_128_mul hold.                             *)
(***************************************************************************)
C3_MulIsRemainder ==
    op = "mul" =>
        LET f == ty
            a == self
            b == in
            m == WordBits * LIMBS(f)
            qr == div_rem(widening_mul(a, b), MODULUS(f))
        IN  /\ out # Panic
            /\ Len(out) = LIMBS(f)
            /\ high_half(qr[2]) = ZERO(f)
            /\ PolyAdd(PolyMul(Exps(MODULUS(f)), Exps(qr[1]), m + 1), Exps(out))
                   = PolyMul(Exps(a), Exps(b), m)
            /\ \A t \in MulTests :
                  (f = "GF2p128" /\ a = t[1] /\ b = t[2]) => out = t[3]

\* a product of GF2p128 that had to be reduced
C3_Witness ==
    /\ op = "mul"
    /\ ty = "GF2p128"
    /\ self = << 4692, 16792, 36263, 10685, 60657, 25822, 64423, 46738 >>
    /\ in = << 32137, 55146, 25678, 14876, 1148, 46602, 7064, 12528 >>
    /\ out = << 14520, 47423, 58122, 58718, 64548, 12109, 23062, 48404 >>
    /\ ~is_zero(widening_gf_mul(self, in)[1])

(***************************************************************************)
(* C4: for every non-zero element a, inv(a) is Some(b) with                *)
(* mul(a, b) = ONE.                                                        *)
(***************************************************************************)
C4_InvIsInverse ==
    (op = "inv" /\ ~is_zero(self)) =>
        /\ out # None
        /\ out[1] = "Some"
        /\ mul(ty, self, out[2]) = ONE(ty)

\* the inverse of a sampled element of GF2p256, which is neither 0 nor 1
C4_Witness ==
    /\ op = "inv"
    /\ ty = "GF2p256" /\ self = random(1, 16)
    /\ out # None
    /\ out[2] \notin {zero(16), one(16), self}

(***************************************************************************)
(* C5: inversion is the only operation that can fail, and it fails only by *)
(* returning None: inv(a) = None exactly when a is the zero element, and   *)
(* otherwise it is Some(element); add, sub and mul return an element for   *)
(* every pair of elements; no operation panics.                            *)
(***************************************************************************)
IsElement(f, v) ==
    /\ v # Panic
    /\ Len(v) = LIMBS(f)
    /\ \A i \in 1 .. Len(v) : v[i] \in 0 .. (WordMod - 1)

C5_OnlyInvFails ==
    /\ op = "inv" =>
          /\ out # Panic
          /\ (out = None) <=> (self = ZERO(ty))
          /\ out # None => (out[1] = "Some" /\ IsElement(ty, out[2]))
    /\ op \in {"add", "sub", "mul"} => IsElement(ty, out)
    /\ ty \in Fields => (IsElement(ty, ZERO(ty)) /\ IsElement(ty, ONE(ty)))

\* inv applied to the zero element of a field
C5_Witness ==
    /\ op = "inv"
    /\ ty = "GF2p192" /\ self = zero(12)
    /\ out = None

(***************************************************************************)
(* C6: for every dividend d of degree below 2m and the field's MODULUS,    *)
(* monic of degree m, div_rem(d, MODULUS) returns (q, r) with              *)
(* q * MODULUS XOR r = d over GF(2)[x] and degree(r) < m.                  *)
(***************************************************************************)
C6_DivRemContract ==
    op = "div_rem_done" =>
        LET f == ty
            m == WordBits * LIMBS(f)
            d == in
            q == out.quo
            r == out.rem
        IN  /\ degree(d) < 2 * m
            /\ degree(MODULUS(f)) = m
            /\ << q, r >> = div_rem(d, MODULUS(f))
            /\ PolyAdd(PolyMul(Exps(MODULUS(f)), Exps(q), m + 1), Exps(r)) = Exps(d)
            /\ degree(r) < m

\* a division of GF2p256 with a dividend of degree 2m - 1, whose quotient and
\* remainder are not zero
C6_Witness ==
    /\ op = "div_rem_done"
    /\ ty = "GF2p256"
    /\ in = from_f2x(not(zero(16)), random(1, 16))
    /\ ~is_zero(out.quo) /\ ~is_zero(out.rem)

(***************************************************************************)
(* C7: addition is the limb-wise XOR, commutative and associative, with    *)
(* ZERO its identity and every element its own inverse; sub returns what   *)
(* add returns.  For the field types (add, sub) and for ExtField2 (gf_add, *)
(* gf_sub).                                                                *)
(***************************************************************************)
C7_AddIsXorGroup ==
    /\ op = "add" =>
          LET f == ty
              a == self
              b == in
          IN  /\ Exps(out) = PolyAdd(Exps(a), Exps(b))
              /\ out = add(f, b, a)
              /\ add(f, a, ZERO(f)) = a
              /\ add(f, a, a) = ZERO(f)
              /\ \A c \in Pool(LIMBS(f)) : add(f, out, c) = add(f, a, add(f, b, c))
    /\ op = "sub" => out = add(ty, self, in)
    /\ op = "gf_add" =>
          LET a == self
              b == in
          IN  /\ Exps(out) = PolyAdd(Exps(a), Exps(b))
              /\ out = gf_add(b, a)
              /\ gf_add(a, zero(Len(a))) = a
              /\ gf_add(a, a) = zero(Len(a))
              /\ \A c \in Pool(Len(a)) : gf_add(out, c) = gf_add(a, gf_add(b, c))
    /\ op = "gf_sub" => out = gf_add(self, in)

\* the sum of two different non-zero elements of a field
C7_Witness ==
    /\ op = "add"
    /\ ty = "GF2p128" /\ self = not(zero(8)) /\ in = random(1, 8)
    /\ out = not(random(1, 8))

(***************************************************************************)
(* C8: field multiplication is commutative and distributes over addition.  *)
(***************************************************************************)
C8_MulCommutesDistributes ==
    op = "mul" =>
        LET f == ty
            a == self
            b == in
        IN  /\ out = mul(f, b, a)
            /\ \A c \in Pool(LIMBS(f)) :
                  mul(f, a, add(f, b, c)) = add(f, out, mul(f, a, c))

\* a product of two different sampled elements, neither 0 nor 1
C8_Witness ==
    /\ op = "mul"
    /\ ty = "GF2p192" /\ self = random(1, 12) /\ in = not(zero(12))
    /\ ~is_zero(out)

(***************************************************************************)
(* C10: the long division of a dividend of degree below 2m by the          *)
(* degree-m MODULUS terminates after at most m iterations: every iteration *)
(* XORs the shifted divisor into the remainder and strictly lowers the     *)
(* remainder's degree, the loop runs only while degree(remainder) >= m and *)
(* stops as soon as degree(remainder) < m, and every division that starts  *)
(* returns, that of mul included.                                          *)
(***************************************************************************)
C10_DivisionTerminates ==
    /\ [](op \in {"div_rem", "div_rem_done"} => iter <= WordBits * LIMBS(ty))
    /\ [][(op = "div_rem" /\ iter' = iter + 1) =>
            LET m == WordBits * LIMBS(ty)
                deg == degree(out.rem)
            IN  /\ deg >= m
                /\ out'.rem = gf_add(out.rem, shl(MODULUS(ty), deg - m))
                /\ degree(out'.rem) < deg]_vars
    /\ [][(op = "div_rem" /\ degree(out.rem) < WordBits * LIMBS(ty)) =>
            op' = "div_rem_done"]_vars
    /\ [](op = "div_rem_done" => degree(out.rem) < WordBits * LIMBS(ty))
    /\ (op = "div_rem") ~> (op = "div_rem_done")

\* a division of GF2p128 that returned after exactly m = 128 iterations
C10_Witness ==
    /\ op = "div_rem_done"
    /\ ty = "GF2p128"
    /\ iter = WordBits * LIMBS(ty)
    /\ out.quo = from_f2x(zero(8), not(zero(8)))

====
